---- MODULE Spec2Model ----
(***************************************************************************)
(* Model of the worker pipeline of musictabapp:                            *)
(*   - process_job (services/worker/tasks.py): the orchestration of one    *)
(*     job, its progress/status writes to the jobs table and the artifact  *)
(*     insert, for up to MaxRuns executions of the task on one job row;    *)
(*   - process_with_separation / SourceSeparator                           *)
(*     (services/worker/source_separator.py);                              *)
(*   - standardize_drum_midi (services/worker/midi_standardizer.py).       *)
(***************************************************************************)
EXTENDS Integers, Sequences, FiniteSets, TLC

\* Number of executions of process_job delivered for the one job id
\* (the original delivery plus manual re-triggers or redeliveries).
MaxRuns == 2

Runs == 1..MaxRuns

\* The execution whose history (exc, termWrites, stages, faults, sepRes)
\* is recorded; the other executions run the same code on the same row.
Observed == 1

\* Worker processes (pids) and jobs of the separation model.
MaxProcs == 2
MaxJobs == 2

Procs == 1..MaxProcs
Jobs == 1..MaxJobs

\* Input MIDI files of the standardizer: notes per file, and the latest
\* note start, in ticks of 1/TicksPerSecond s.
MaxNotes == 3
MaxTime == 12

\* ---------------------------------------------------------------------
\* Values
\* ---------------------------------------------------------------------
NoValue == "none"

Terminal == {"SUCCEEDED", "FAILED"}

\* Outcome of one supabase .execute() on an update/insert: rows returned
\* (applied), no rows returned (nothing applied), or an exception.
WriteOutcomes == {"ok", "nodata", "raise"}

SourceTypes == {"upload", "youtube", "other"}

\* source_object_path values: absent, the uploaded object, the object the
\* YouTube downloader stored.
UploadPath == "audio-input/upload.wav"
YoutubePath == "audio-input/youtube.m4a"

\* Exception messages raised inside process_job.
MsgConfig == "Missing Supabase configuration"
MsgNotFound == "Job not found"
MsgNoUrl == "YouTube URL is required for YouTube jobs"
MsgSource == "Unsupported source type"
MsgDownload == "YouTube download failed"
MsgDb == "supabase request failed"

VARIABLES
    config,      \* SUPABASE_URL and SUPABASE_SERVICE_ROLE_KEY are both set
    jobIn,       \* immutable columns of the job row
    job,         \* mutable columns of the job row
    artifacts,   \* number of rows of table artifacts with this job_id
    pc,          \* position of each execution of process_job
    jobData,     \* each execution's job_data snapshot (source_object_path)
    exc,         \* the exception that left the try block (observed execution)
    termWrites,  \* terminal status writes it applied to the row
    stages,      \* pipeline stages it entered, in order
    faults,      \* its steps that failed
    sepRes,      \* the result process_with_separation returned to it
    writes,      \* the status/progress writes it issued, in order
    flow,        \* locators its stages read and produced, in order
    sep,         \* the SourceSeparator object made for each separation job
    dirs,        \* directories that exist under the system temp directory
    fs,          \* stem files that exist: [dir, job, stem]
    jobSep,      \* each job: state, temp dir its separation run used, stems
    clobbered,   \* jobs that lost files in use to another job's teardown
    grid,        \* standardize_drum_midi: the grid argument
    tempo,       \* the tempo argument (BPM)
    raw_events,  \* the notes of the input file's drum track
    processed_events, \* the events kept, after rules 1, 3 and 4
    notes,       \* the notes of the standardized drum track
    previous,    \* the notes of the file this call was given, when that
                 \* file is the output of an earlier call
    pass,        \* 1: a raw file is standardized; 2: the output of pass 1
    stdPc,       \* position in standardize_drum_midi
    request,     \* the separation call in progress: function and arguments
    reply,       \* what that call returned or raised
    engineRun,   \* what the engine subprocess did in that call, if started
    writtenFiles, \* stem files the call wrote: [stem, size, content]
    presentFiles, \* those of them that exist when the caller has the result
    results,     \* results of the process_with_separation calls so far
    callPc,      \* position of the caller of the separation functions
    recording,   \* transcribe_drums_to_midi: the onsets in the recording
    modelFile,   \* the state of the classifier's model file
    inference,   \* how the classifier's inference went
    use_dldc,    \* the flag of that name
    drum_events, \* its list events
    midiOut,     \* the MIDI files written: <<>> or <<final_events>>
    samples,     \* len(y): the number of samples of the signal
    seg_len,     \* to_segments: the window length in samples
    starts,      \* to_segments: the window starts it returned
    midiTrack,   \* write_midi: the messages of the track it wrote
    trPc,        \* position in transcribe_drums_to_midi
    engineOutcome, \* one demucs separation: whether the input is converted,
                 \* the engine's exit code, the stems it leaves
    current_progress, \* _run_command_with_progress: the local of that name
    total_models, \* the local of that name
    current_model, \* the local of that name
    linesRead,   \* number of lines read from the engine's output
    reported,    \* the values passed to progress_callback, in order
    stem_files,  \* separate: the stems of the map it returns
    progPc       \* position in that separation

orchVars == <<config, jobIn, job, artifacts, pc, jobData, exc, termWrites,
              stages, faults, sepRes, writes, flow>>

sepVars == <<sep, dirs, fs, jobSep, clobbered>>

stdVars == <<grid, tempo, raw_events, processed_events, notes, previous,
             pass, stdPc>>

callVars == <<request, reply, engineRun, writtenFiles, presentFiles,
              results, callPc>>

trVars == <<recording, modelFile, inference, use_dldc, drum_events,
            midiOut, samples, seg_len, starts, midiTrack, trPc>>

progVars == <<engineOutcome, current_progress, total_models, current_model,
              linesRead, reported, stem_files, progPc>>

vars == <<orchVars, sepVars, stdVars, callVars, trVars, progVars>>

\* ---------------------------------------------------------------------
\* Pure parts
\* ---------------------------------------------------------------------

\* The row after .update(update_data).eq("id", job_id).execute()
ApplyUpdate(row, status, progress, outcome) ==
    IF outcome = "ok"
    THEN [row EXCEPT !.status = status, !.progress = progress]
    ELSE row

\* Variant: the handler leaves the row as it is.
ApplyFailed_Dropped(row, message, outcome) == row

\* The row after the handler's .update({"status": "FAILED"})
ApplyFailed(row, message, outcome) ==
    IF outcome = "ok" THEN [row EXCEPT !.status = "FAILED"] ELSE row

\* The row after .update({"source_object_path": storage_path})
ApplySourcePath(row, path, outcome) ==
    IF outcome = "ok" THEN [row EXCEPT !.source_object_path = path] ELSE row

\* The artifacts table after .insert(artifact_data).execute()
ApplyInsert(count, outcome) == IF outcome = "ok" THEN count + 1 ELSE count

\* The handler's update carries a status and no progress.
NoProgress == -1

\* One status/progress write: where in process_job it is issued and what
\* it carries.
WriteRec(at, progress, status) ==
    [at |-> at, progress |-> progress, status |-> status]

\* Variant: the transcription phase announced at 80.
Milestone_Drift(at) ==
    CASE at = "w0" -> 0
      [] at = "w25" -> 25
      [] at = "w30" -> 30
      [] at = "w60" -> 60
      [] at = "pre" -> 75
      [] at = "w75" -> 75
      [] at = "w85" -> 80
      [] at = "w90" -> 90
      [] at = "w100" -> 100

\* Variant: the preprocessing phase announced at 20, below the 25 before.
Milestone_Restart(at) ==
    CASE at = "w0" -> 0
      [] at = "w25" -> 25
      [] at = "w30" -> 30
      [] at = "w60" -> 20
      [] at = "pre" -> 75
      [] at = "w75" -> 75
      [] at = "w85" -> 85
      [] at = "w90" -> 90
      [] at = "w100" -> 100

\* The progress value of each update_progress call of process_job, by the
\* position of the call ("pre": the call inside the preprocessing block).
Milestone(at) ==
    CASE at = "w0" -> 0
      [] at = "w25" -> 25
      [] at = "w30" -> 30
      [] at = "w60" -> 60
      [] at = "pre" -> 75
      [] at = "w75" -> 75
      [] at = "w85" -> 85
      [] at = "w90" -> 90
      [] at = "w100" -> 100

\* Variant: a source type that is not 'youtube' is handled as an upload.
SourceCheck_Lenient(source_type, youtube_url) ==
    CASE source_type = "youtube" /\ ~youtube_url -> MsgNoUrl
      [] OTHER -> NoValue

\* The branch on source_type: the message of the exception it raises, or
\* NoValue when the source is accepted.
SourceCheck(source_type, youtube_url) ==
    CASE source_type = "youtube" /\ ~youtube_url -> MsgNoUrl
      [] source_type = "youtube" /\ youtube_url -> NoValue
      [] source_type = "upload" -> NoValue
      [] OTHER -> MsgSource

\* Locators of the files the stages name.
DrumsPlaceholder == "output/<job_id>/drums.wav"
DrumsStem == "<temp_dir>/<job_id>_drums.wav"
RawMidi == "output/<job_id>/drums_raw.mid"

\* storage_path of the artifact record process_job inserts.
ArtifactPath == "artifacts/<job_id>/placeholder.txt"

\* One access of a stage to a locator: kind is "read" or "write".
FlowRec(stage, kind, path) == [stage |-> stage, kind |-> kind, path |-> path]

NoResult == [success |-> FALSE, separation_enabled |-> FALSE,
             original_file |-> NoValue, note |-> NoValue, error |-> NoValue]

\* Variant: the branch for separate = False returns no original_file.
ProcessWithSeparation_NoOriginal(input_path, separate, engine) ==
    IF engine = "setup_fail"
    THEN [success |-> FALSE, separation_enabled |-> FALSE,
          original_file |-> NoValue, note |-> NoValue,
          error |-> "setup failed"]
    ELSE IF ~separate
    THEN [success |-> TRUE, separation_enabled |-> FALSE,
          original_file |-> NoValue,
          note |-> "Separation disabled, using original audio",
          error |-> NoValue]
    ELSE IF engine = "ok"
    THEN [success |-> TRUE, separation_enabled |-> TRUE,
          original_file |-> NoValue, note |-> NoValue, error |-> NoValue]
    ELSE [success |-> TRUE, separation_enabled |-> FALSE,
          original_file |-> input_path,
          note |-> "Separation failed, fell back to original audio",
          error |-> "separation failed"]

\* Variant: the inner except clause of process_with_separation reports the
\* engine failure as a failed call instead of falling back.
ProcessWithSeparation_NoFallback(input_path, separate, engine) ==
    IF engine = "setup_fail" \/ (separate /\ engine # "ok")
    THEN [success |-> FALSE, separation_enabled |-> FALSE,
          original_file |-> NoValue, note |-> NoValue,
          error |-> "separation failed"]
    ELSE IF ~separate
    THEN [success |-> TRUE, separation_enabled |-> FALSE,
          original_file |-> input_path,
          note |-> "Separation disabled, using original audio",
          error |-> NoValue]
    ELSE [success |-> TRUE, separation_enabled |-> TRUE,
          original_file |-> NoValue, note |-> NoValue, error |-> NoValue]

\* process_with_separation(input_path, job_id, separate, method):
\* engine is what happens inside the call: "ok", "engine_fail" (separate()
\* raises: missing input, non-zero exit, missing output directory) or
\* "setup_fail" (create_source_separator() raises).
ProcessWithSeparation(input_path, separate, engine) ==
    IF engine = "setup_fail"
    THEN [success |-> FALSE, separation_enabled |-> FALSE,
          original_file |-> NoValue, note |-> NoValue,
          error |-> "setup failed"]
    ELSE IF ~separate
    THEN [success |-> TRUE, separation_enabled |-> FALSE,
          original_file |-> input_path,
          note |-> "Separation disabled, using original audio",
          error |-> NoValue]
    ELSE IF engine = "ok"
    THEN [success |-> TRUE, separation_enabled |-> TRUE,
          original_file |-> NoValue, note |-> NoValue, error |-> NoValue]
    ELSE [success |-> TRUE, separation_enabled |-> FALSE,
          original_file |-> input_path,
          note |-> "Separation failed, fell back to original audio",
          error |-> "separation failed"]

\* ---------------------------------------------------------------------
\* Initial state: a job row as POST /jobs inserts it
\* ---------------------------------------------------------------------
InitOrch ==
    /\ config \in BOOLEAN
    /\ jobIn \in [source_type : SourceTypes, youtube_url : BOOLEAN,
                  separate : BOOLEAN, drums : BOOLEAN]
    /\ job \in [status : {"PENDING"}, progress : {0},
                error_message : {NoValue},
                source_object_path : {NoValue, UploadPath}]
    /\ artifacts = 0
    /\ pc = [e \in Runs |-> "idle"]
    /\ jobData = [e \in Runs |-> NoValue]
    /\ exc = NoValue
    /\ termWrites = <<>>
    /\ stages = <<>>
    /\ faults = {}
    /\ sepRes = NoResult
    /\ writes = <<>>
    /\ flow = <<>>

\* No separator exists and the temp directory holds nothing.
InitSep ==
    /\ sep = [j \in Jobs |-> [state |-> "unborn", pid |-> 0, dir |-> NoValue,
                              cleanup |-> TRUE]]
    /\ dirs = {}
    /\ fs = {}
    /\ jobSep = [j \in Jobs |-> [state |-> "new", dir |-> NoValue, stems |-> {}]]
    /\ clobbered = {}

\* The standardizer has not been called.
InitStd ==
    /\ grid = "1/16"
    /\ tempo = 120
    /\ raw_events = <<>>
    /\ processed_events = <<>>
    /\ notes = <<>>
    /\ previous = <<>>
    /\ pass = 1
    /\ stdPc = "idle"

\* The facts about an input file that the separator looks at: whether it
\* exists, its size (0 or not), whether ffprobe finds an audio stream and
\* the duration ffprobe reports (0 or not).
AudioRec(exists, size, stream, duration) ==
    [exists |-> exists, size |-> size, stream |-> stream,
     duration |-> duration]

\* The arguments of a call of process_with_separation or of
\* SourceSeparator.separate; sources = {} stands for sources=None.
RequestRec(api, path, audio, separate, method, sources) ==
    [api |-> api, path |-> path, audio |-> audio, separate |-> separate,
     method |-> method, sources |-> sources]

NoRequest ==
    RequestRec(NoValue, NoValue, AudioRec(FALSE, 0, FALSE, 0), FALSE, "none",
               {})

\* What a call handed back: separate() raises or returns its stems;
\* process_with_separation returns a result and never raises.
ReplyRec(raised, result, stems) ==
    [raised |-> raised, result |-> result, stems |-> stems]

\* The engine subprocess of a call: whether it was started, its exit
\* status, whether its output directory is there, the stem files in it
\* and those of them that cannot be moved.
EngineRec(started, exit, outdir, produced, unmovable) ==
    [started |-> started, exit |-> exit, outdir |-> outdir,
     produced |-> produced, unmovable |-> unmovable]

NoEngine == EngineRec(FALSE, 0, FALSE, {}, {})

\* No separation call has been made.
InitCalls ==
    /\ request = NoRequest
    /\ reply = ReplyRec(FALSE, NoResult, {})
    /\ engineRun = NoEngine
    /\ writtenFiles = {}
    /\ presentFiles = {}
    /\ results = <<>>
    /\ callPc = "idle"

\* transcribe_drums_to_midi has not been called.
InitTr ==
    /\ recording = <<>>
    /\ modelFile = "absent"
    /\ inference = "pending"
    /\ use_dldc = FALSE
    /\ drum_events = <<>>
    /\ midiOut = <<>>
    /\ samples = 0
    /\ seg_len = 2
    /\ starts = <<>>
    /\ midiTrack = <<>>
    /\ trPc = "idle"

\* No demucs separation is running.
InitProg ==
    /\ engineOutcome = [convert |-> FALSE, exit |-> 0, produced |-> {}]
    /\ current_progress = 0
    /\ total_models = 4
    /\ current_model = 0
    /\ linesRead = 0
    /\ reported = <<>>
    /\ stem_files = {}
    /\ progPc = "idle"

Init == InitOrch /\ InitSep /\ InitStd /\ InitCalls /\ InitTr /\ InitProg

\* ---------------------------------------------------------------------
\* process_job, step by step
\* ---------------------------------------------------------------------

\* A history variable changes only in the observed execution.
Log(e, old, new) == IF e = Observed THEN new ELSE old

\* An exception leaves the outer try block: control goes to the handler.
Raise(e, message, fault) ==
    /\ pc' = [pc EXCEPT ![e] = "handler"]
    /\ exc' = Log(e, exc, message)
    /\ faults' = Log(e, faults, faults \cup {fault})

\* Variant: the transcription block placed before the separation block.
NextStep_Swapped(from) ==
    CASE from = "w0" -> "w25"
      [] from = "w30" -> "ytdl"
      [] from = "ytdl" -> "w60"
      [] from = "w60" -> "pre"
      [] from = "pre" -> "w75"
      [] from = "w75" -> "tr"
      [] from = "tr" -> "w85"
      [] from = "w85" -> "sep"
      [] from = "sep" -> "w90"
      [] from = "w90" -> "w100"
      [] from = "w100" -> "art"
      [] from = "art" -> "returned"

\* The straight-line order of the steps of process_job (lines 283-483).
NextStep(from) ==
    CASE from = "w0" -> "w25"
      [] from = "w30" -> "ytdl"
      [] from = "ytdl" -> "w60"
      [] from = "w60" -> "pre"
      [] from = "pre" -> "w75"
      [] from = "w75" -> "sep"
      [] from = "sep" -> "w85"
      [] from = "w85" -> "tr"
      [] from = "tr" -> "w90"
      [] from = "w90" -> "w100"
      [] from = "w100" -> "art"
      [] from = "art" -> "returned"

\* Variant: the transcription block re-raises instead of continuing.
StageHandler_TranscribeFatal(stage) ==
    CASE stage = "normalize" -> "continue"
      [] stage = "separate" -> "continue"
      [] stage = "transcribe" -> "propagate"

\* The except clause that closes the try block of a stage: every stage
\* block of process_job logs the error and continues.
StageHandler(stage) ==
    CASE stage = "normalize" -> "continue"
      [] stage = "separate" -> "continue"
      [] stage = "transcribe" -> "continue"

\* update_progress(progress, status) at position `from`, then on to `to`.
UpdateProgress(e, from, progress, status, to) ==
    /\ pc[e] = from
    /\ \E o \in WriteOutcomes :
        /\ job' = ApplyUpdate(job, status, progress, o)
        /\ writes' = Log(e, writes, Append(writes, WriteRec(from, progress, status)))
        /\ termWrites' = Log(e, termWrites,
               IF o = "ok" /\ status \in Terminal
               THEN Append(termWrites, status) ELSE termWrites)
        /\ IF o = "raise"
           THEN Raise(e, MsgDb, "progress_raise")
           ELSE /\ pc' = [pc EXCEPT ![e] = to]
                /\ exc' = exc
                /\ faults' = Log(e, faults,
                                 IF o # "nodata" THEN faults
                                 ELSE IF status \in Terminal
                                      THEN faults \cup {"final_nodata"}
                                      ELSE faults \cup {"progress_nodata"})

\* Lines 240-263: configuration check, client, job_data from the row.
Start(e) ==
    /\ pc[e] = "idle"
    /\ \A d \in Runs : (Observed < d /\ d < e) => pc[d] # "idle"
    /\ IF ~config
       THEN /\ Raise(e, MsgConfig, "config")
            /\ UNCHANGED jobData
       ELSE \E found \in BOOLEAN :
            IF found
            THEN /\ jobData' = [jobData EXCEPT ![e] = job.source_object_path]
                 /\ pc' = [pc EXCEPT ![e] = "w0"]
                 /\ UNCHANGED <<exc, faults>>
            ELSE /\ Raise(e, MsgNotFound, "fetch")
                 /\ UNCHANGED jobData
    /\ UNCHANGED <<config, jobIn, job, artifacts, termWrites, stages, sepRes, writes, flow>>

\* Line 285: update_progress(0, "RUNNING")
WriteInit(e) ==
    /\ UpdateProgress(e, "w0", Milestone("w0"), "RUNNING", NextStep("w0"))
    /\ UNCHANGED <<config, jobIn, artifacts, jobData, stages, sepRes, flow>>

\* Lines 287-329: update_progress(25), then the branch on source_type.
WriteSource(e) ==
    /\ pc[e] = "w25"
    /\ \E o \in WriteOutcomes :
        /\ job' = ApplyUpdate(job, "RUNNING", Milestone("w25"), o)
        /\ writes' = Log(e, writes,
               Append(writes, WriteRec("w25", Milestone("w25"), "RUNNING")))
        /\ IF o = "raise"
           THEN Raise(e, MsgDb, "progress_raise")
           ELSE LET f == IF o = "nodata" THEN {"progress_nodata"} ELSE {}
                    err == SourceCheck(jobIn.source_type, jobIn.youtube_url)
                IN
                IF err # NoValue
                THEN /\ pc' = [pc EXCEPT ![e] = "handler"]
                     /\ exc' = Log(e, exc, err)
                     /\ faults' = Log(e, faults, faults \cup f \cup {"source"})
                ELSE /\ pc' = [pc EXCEPT ![e] =
                            IF jobIn.source_type = "youtube" THEN "w30" ELSE "w60"]
                     /\ exc' = exc
                     /\ faults' = Log(e, faults, faults \cup f)
    /\ UNCHANGED <<config, jobIn, artifacts, jobData, termWrites, stages, sepRes, flow>>

\* Line 305: update_progress(30, "RUNNING")
WriteDownload(e) ==
    /\ UpdateProgress(e, "w30", Milestone("w30"), "RUNNING", NextStep("w30"))
    /\ UNCHANGED <<config, jobIn, artifacts, jobData, stages, sepRes, flow>>

\* Lines 311-320: process_youtube_audio, then the row's source_object_path
\* is set to the stored object (job_data, the snapshot, is not).
YoutubeDownload(e) ==
    /\ pc[e] = "ytdl"
    /\ \E dl \in {"ok", "raise"}, o \in WriteOutcomes :
        IF dl = "raise"
        THEN /\ Raise(e, MsgDownload, "download")
             /\ UNCHANGED <<job, flow>>
        ELSE /\ job' = ApplySourcePath(job, YoutubePath, o)
             /\ flow' = Log(e, flow,
                    Append(flow, FlowRec("download", "write", YoutubePath)))
             /\ IF o = "raise"
                THEN Raise(e, MsgDb, "progress_raise")
                ELSE /\ pc' = [pc EXCEPT ![e] = NextStep("ytdl")]
                     /\ UNCHANGED <<exc, faults>>
    /\ UNCHANGED <<config, jobIn, artifacts, jobData, termWrites, stages, sepRes, writes>>

\* Line 332: update_progress(60, "RUNNING")
WritePreprocessing(e) ==
    /\ UpdateProgress(e, "w60", Milestone("w60"), "RUNNING", NextStep("w60"))
    /\ UNCHANGED <<config, jobIn, artifacts, jobData, stages, sepRes, flow>>

\* A stage block failed with an exception: its except clause decides.
StageFailed(e, from, stage, message, fault) ==
    IF StageHandler(stage) = "continue"
    THEN /\ pc' = [pc EXCEPT ![e] = NextStep(from)]
         /\ exc' = exc
         /\ faults' = Log(e, faults, faults \cup {fault})
    ELSE Raise(e, message, fault)

\* Lines 334-363: the preprocessing block. It runs only when job_data has
\* a source_object_path; its update_progress(75) is inside the try block.
Preprocess(e) ==
    /\ pc[e] = "pre"
    /\ IF jobData[e] = NoValue
       THEN /\ pc' = [pc EXCEPT ![e] = NextStep("pre")]
            /\ UNCHANGED <<job, exc, faults, stages, writes>>
       ELSE /\ stages' = Log(e, stages, Append(stages, "normalize"))
            /\ \E out \in {"ok", "raise"}, o \in WriteOutcomes :
                IF out = "raise"
                THEN /\ UNCHANGED <<job, writes>>
                     /\ StageFailed(e, "pre", "normalize", "preprocessor failed", "pre")
                ELSE /\ job' = ApplyUpdate(job, "RUNNING", Milestone("pre"), o)
                     /\ writes' = Log(e, writes,
                            Append(writes, WriteRec("pre", Milestone("pre"), "RUNNING")))
                     /\ IF o = "raise"
                        THEN StageFailed(e, "pre", "normalize", MsgDb, "pre_write")
                        ELSE /\ pc' = [pc EXCEPT ![e] = NextStep("pre")]
                             /\ exc' = exc
                             /\ faults' = Log(e, faults,
                                    IF o = "nodata"
                                    THEN faults \cup {"progress_nodata"} ELSE faults)
    /\ UNCHANGED <<config, jobIn, artifacts, jobData, termWrites, sepRes, flow>>

\* Line 366: update_progress(75, "RUNNING")
WriteSeparation(e) ==
    /\ UpdateProgress(e, "w75", Milestone("w75"), "RUNNING", NextStep("w75"))
    /\ UNCHANGED <<config, jobIn, artifacts, jobData, stages, sepRes, flow>>

\* What process_with_separation can meet inside: see ProcessWithSeparation.
\* "import_fail": the import of source_separator at line 379 raises.
SepOutcomes == {"ok", "engine_fail", "setup_fail", "import_fail"}

\* Lines 368-407: the optional separation block (method is left 'none').
Separate(e) ==
    /\ pc[e] = "sep"
    /\ IF ~jobIn.separate
       THEN /\ pc' = [pc EXCEPT ![e] = NextStep("sep")]
            /\ UNCHANGED <<exc, faults, stages, sepRes, flow>>
       ELSE /\ stages' = Log(e, stages, Append(stages, "separate"))
            /\ \E out \in SepOutcomes :
                IF out = "import_fail"
                THEN /\ StageFailed(e, "sep", "separate", "import failed", "sep_import")
                     /\ UNCHANGED <<sepRes, flow>>
                ELSE /\ sepRes' = Log(e, sepRes, ProcessWithSeparation(jobData[e], TRUE, out))
                     /\ flow' = Log(e, flow,
                            flow \o <<FlowRec("separate", "read", jobData[e])>>
                                 \o (IF out = "ok"
                                     THEN <<FlowRec("separate", "write", DrumsStem)>>
                                     ELSE <<>>))
                     /\ pc' = [pc EXCEPT ![e] = NextStep("sep")]
                     /\ exc' = exc
                     /\ faults' = Log(e, faults,
                            CASE out = "ok" -> faults
                              [] out = "engine_fail" -> faults \cup {"sep_engine"}
                              [] out = "setup_fail" -> faults \cup {"sep_setup"})
    /\ UNCHANGED <<config, jobIn, job, artifacts, jobData, termWrites, writes>>

\* Line 410: update_progress(85, "RUNNING")
WriteTranscription(e) ==
    /\ UpdateProgress(e, "w85", Milestone("w85"), "RUNNING", NextStep("w85"))
    /\ UNCHANGED <<config, jobIn, artifacts, jobData, stages, sepRes, flow>>

\* Lines 412-450: drum transcription when 'drums' is requested.
\* "nofile": output/<job>/drums.wav is absent and the dummy-file branch
\* raises NameError (np is not imported in tasks.py).
Transcribe(e) ==
    /\ pc[e] = "tr"
    /\ IF ~jobIn.drums
       THEN /\ pc' = [pc EXCEPT ![e] = NextStep("tr")]
            /\ UNCHANGED <<exc, faults, stages, flow>>
       ELSE /\ stages' = Log(e, stages, Append(stages, "transcribe"))
            /\ \E out \in {"ok", "nofile", "raise"} :
                /\ flow' = Log(e, flow,
                       flow \o <<FlowRec("transcribe", "read", DrumsPlaceholder)>>
                            \o (IF out = "ok"
                                THEN <<FlowRec("transcribe", "write", RawMidi)>>
                                ELSE <<>>))
                /\ IF out = "ok"
                   THEN /\ pc' = [pc EXCEPT ![e] = NextStep("tr")]
                        /\ UNCHANGED <<exc, faults>>
                   ELSE StageFailed(e, "tr", "transcribe", "transcription failed", "tr")
    /\ UNCHANGED <<config, jobIn, job, artifacts, jobData, termWrites, sepRes, writes>>

\* Line 453: update_progress(90, "RUNNING")
WriteFinalization(e) ==
    /\ UpdateProgress(e, "w90", Milestone("w90"), "RUNNING", NextStep("w90"))
    /\ UNCHANGED <<config, jobIn, artifacts, jobData, stages, sepRes, flow>>

\* Line 458: update_progress(100, "SUCCEEDED")
WriteSucceeded(e) ==
    /\ UpdateProgress(e, "w100", Milestone("w100"), "SUCCEEDED", NextStep("w100"))
    /\ UNCHANGED <<config, jobIn, artifacts, jobData, stages, sepRes, flow>>

\* Lines 460-497: the placeholder artifact insert, then the return.
InsertArtifact(e) ==
    /\ pc[e] = "art"
    /\ stages' = Log(e, stages, Append(stages, "artifact"))
    /\ \E o \in WriteOutcomes :
        /\ artifacts' = ApplyInsert(artifacts, o)
        /\ IF o = "raise"
           THEN Raise(e, MsgDb, "artifact_raise")
           ELSE /\ pc' = [pc EXCEPT ![e] = NextStep("art")]
                /\ exc' = exc
                /\ faults' = Log(e, faults,
                       IF o = "nodata" THEN faults \cup {"artifact_nodata"} ELSE faults)
    /\ UNCHANGED <<config, jobIn, job, jobData, termWrites, sepRes, writes, flow>>

\* Lines 499-524: the handler writes status FAILED when the configuration
\* is present, swallows an error of that write, and re-raises.
Handler(e) ==
    /\ pc[e] = "handler"
    /\ pc' = [pc EXCEPT ![e] = "raised"]
    /\ IF config
       THEN \E o \in WriteOutcomes :
            /\ job' = ApplyFailed(job, exc, o)
            /\ writes' = Log(e, writes,
                   Append(writes, WriteRec("handler", NoProgress, "FAILED")))
            /\ termWrites' = Log(e, termWrites,
                   IF o = "ok" THEN Append(termWrites, "FAILED") ELSE termWrites)
       ELSE UNCHANGED <<job, termWrites, writes>>
    /\ UNCHANGED <<config, jobIn, artifacts, jobData, exc, stages, faults, sepRes, flow>>

\* One step of execution e of process_job.
Step(e) ==
    \/ Start(e)
    \/ WriteInit(e)
    \/ WriteSource(e)
    \/ WriteDownload(e)
    \/ YoutubeDownload(e)
    \/ WritePreprocessing(e)
    \/ Preprocess(e)
    \/ WriteSeparation(e)
    \/ Separate(e)
    \/ WriteTranscription(e)
    \/ Transcribe(e)
    \/ WriteFinalization(e)
    \/ WriteSucceeded(e)
    \/ InsertArtifact(e)
    \/ Handler(e)

\* A single execution of process_job on a job row, for every job and
\* every outcome of the calls it makes.
Next == Step(Observed) /\ UNCHANGED <<sepVars, stdVars, callVars, trVars, progVars>>

Spec == Init /\ [][Next]_vars

\* The same execution under the worker's scheduling: the task function
\* keeps running until it returns or re-raises, every call in it returning
\* or raising.
FairSpec == Init /\ [][Next]_vars /\ WF_vars(Next)

\* The task delivered MaxRuns times for one job id (a manual re-trigger
\* as trigger_job sends it, or a redelivery under task_acks_late): the
\* executions interleave at their database calls. The job is a YouTube
\* drums job with separation requested, which takes every step.
InitRedelivery ==
    /\ Init
    /\ config
    /\ jobIn = [source_type |-> "youtube", youtube_url |-> TRUE,
                separate |-> TRUE, drums |-> TRUE]
    /\ job.source_object_path = NoValue

NextRedelivery ==
    (\E e \in Runs : Step(e)) /\ UNCHANGED <<sepVars, stdVars, callVars, trVars, progVars>>

SpecRedelivery == InitRedelivery /\ [][NextRedelivery]_vars

\* ---------------------------------------------------------------------
\* SourceSeparator and its temporary directory
\* ---------------------------------------------------------------------
SupportedStems == {"drums", "bass", "other", "vocals"}

\* The stems method 'none' copies the input to.
PlaceholderStems == {"drums", "bass"}

Methods == {"none", "demucs"}

\* What the engine may leave behind: no stem, some stems, every stem.
ProducedChoices == {{}, {"drums"}, SupportedStems}

\* SourceSeparator.__init__: the temp dir is the argument when given,
\* otherwise <system temp>/separation_<pid>.
TempDir(temp_dir, pid) ==
    IF temp_dir # NoValue THEN temp_dir ELSE <<"separation", pid>>

\* A directory a caller passes for one job (as test_t48 does per method).
CallerDir(j) == <<"caller", j>>

\* separate(): the files <temp_dir>/<job_id>_<stem>.wav it leaves.
\* produced: the stems the engine wrote (method 'demucs').
StemFiles(dir, j, method, produced) ==
    {[dir |-> dir, job |-> j, stem |-> st] :
        st \in IF method = "none" THEN PlaceholderStems ELSE produced}

\* A job whose separation run is in progress or whose result is in use.
Active(k) == jobSep[k].state \in {"running", "result"}

\* shutil.rmtree(temp_dir) in __del__: what it removes and whom it hurts.
Removed(dir, files) == {f \in files : f.dir = dir}

Victims(j, dir, files) ==
    {k \in Jobs \ {j} : Active(k) /\ \E f \in Removed(dir, files) : f.job = k}

\* process_with_separation(input_path, job_id, separate, method) run by
\* process p: it makes a SourceSeparator with the default temp dir, calls
\* separate() when asked to, and returns; the separator, a local, is
\* destroyed at the return and __del__ removes the temp dir.
ProcessWithSeparationCall(p, j) ==
    /\ jobSep[j].state = "new"
    /\ sep[j].state = "unborn"
    /\ \E separate \in BOOLEAN, method \in Methods,
          engine \in {"ok", "engine_fail"}, produced \in ProducedChoices :
        LET dir == TempDir(NoValue, p)
            res == ProcessWithSeparation(UploadPath, separate, engine)
            written == IF res.separation_enabled
                       THEN StemFiles(dir, j, method, produced) ELSE {}
            after == fs \cup written
        IN  /\ method = "none" => produced = {}
            /\ (~separate \/ engine # "ok") => (method = "none" /\ produced = {})
            /\ sep' = [sep EXCEPT ![j] = [state |-> "dead", pid |-> p,
                                          dir |-> dir, cleanup |-> TRUE]]
            /\ fs' = after \ Removed(dir, after)
            /\ dirs' = dirs \ {dir}
            /\ clobbered' = clobbered \cup Victims(j, dir, after)
            /\ jobSep' = [jobSep EXCEPT ![j] =
                   [state |-> "result",
                    dir |-> IF separate THEN dir ELSE NoValue,
                    stems |-> {f.stem : f \in written}]]
    /\ UNCHANGED orchVars

\* SourceSeparator(temp_dir, cleanup) made by a caller in process p for
\* job j (lines 32-48).
SeparatorInit(p, j) ==
    /\ jobSep[j].state = "new"
    /\ sep[j].state = "unborn"
    /\ \E arg \in {NoValue, CallerDir(j)}, cleanup \in BOOLEAN :
        LET dir == TempDir(arg, p) IN
        /\ sep' = [sep EXCEPT ![j] = [state |-> "alive", pid |-> p,
                                      dir |-> dir, cleanup |-> cleanup]]
        /\ dirs' = dirs \cup {dir}
        /\ jobSep' = [jobSep EXCEPT ![j] =
               [state |-> "running", dir |-> NoValue, stems |-> {}]]
    /\ UNCHANGED <<fs, clobbered>>
    /\ UNCHANGED orchVars

\* separator.separate(input_path, job_id, method) (lines 432-516).
SeparatorSeparate(j) ==
    /\ sep[j].state = "alive"
    /\ jobSep[j].state = "running"
    /\ \E method \in Methods, engine \in {"ok", "engine_fail"},
          produced \in ProducedChoices :
        LET written == IF engine = "ok"
                       THEN StemFiles(sep[j].dir, j, method, produced) ELSE {}
        IN  /\ method = "none" => produced = {}
            /\ engine # "ok" => (method = "none" /\ produced = {})
            /\ fs' = fs \cup written
            /\ dirs' = IF engine = "ok" THEN dirs \cup {sep[j].dir} ELSE dirs
            /\ jobSep' = [jobSep EXCEPT ![j] =
                   [state |-> "result", dir |-> sep[j].dir,
                    stems |-> {f.stem : f \in written}]]
    /\ UNCHANGED <<sep, clobbered>>
    /\ UNCHANGED orchVars

\* SourceSeparator.__del__ (lines 532-540), when the caller drops the object.
SeparatorDel(j) ==
    /\ sep[j].state = "alive"
    /\ sep' = [sep EXCEPT ![j].state = "dead"]
    /\ IF sep[j].cleanup /\ sep[j].dir \in dirs
       THEN /\ fs' = fs \ Removed(sep[j].dir, fs)
            /\ dirs' = dirs \ {sep[j].dir}
            /\ clobbered' = clobbered \cup Victims(j, sep[j].dir, fs)
       ELSE UNCHANGED <<fs, dirs, clobbered>>
    /\ UNCHANGED jobSep
    /\ UNCHANGED orchVars

\* The caller (the next stage) is done with the stems of job j.
ReleaseResult(j) ==
    /\ jobSep[j].state = "result"
    /\ sep[j].state = "dead"
    /\ jobSep' = [jobSep EXCEPT ![j].state = "released"]
    /\ UNCHANGED <<sep, dirs, fs, clobbered>>
    /\ UNCHANGED orchVars

\* Separation jobs handled by the worker processes: a process takes a job
\* through process_with_separation or through a SourceSeparator of its own.
InitSeparator ==
    /\ InitSep
    /\ InitOrch
    /\ InitStd
    /\ InitCalls
    /\ InitTr
    /\ InitProg
    /\ config
    /\ jobIn = [source_type |-> "upload", youtube_url |-> FALSE,
                separate |-> TRUE, drums |-> TRUE]
    /\ job.source_object_path = UploadPath

NextSeparator ==
    /\ \/ \E p \in Procs, j \in Jobs : ProcessWithSeparationCall(p, j)
       \/ \E p \in Procs, j \in Jobs : SeparatorInit(p, j)
       \/ \E j \in Jobs : SeparatorSeparate(j)
       \/ \E j \in Jobs : SeparatorDel(j)
       \/ \E j \in Jobs : ReleaseResult(j)
    /\ UNCHANGED <<stdVars, callVars, trVars, progVars>>

SpecSeparator == InitSeparator /\ [][NextSeparator]_vars

\* ---------------------------------------------------------------------
\* separate() and process_with_separation, one call after another
\* ---------------------------------------------------------------------
MaxCalls == 3

\* The input files a call may be given: missing, empty, without an audio
\* stream, of duration 0, and a sound file.
AudioFiles ==
    {AudioRec(FALSE, 0, FALSE, 0), AudioRec(TRUE, 0, FALSE, 0), AudioRec(TRUE, 1, FALSE, 0),
     AudioRec(TRUE, 1, TRUE, 0), AudioRec(TRUE, 1, TRUE, 1)}

InputPaths == {UploadPath, YoutubePath}

AllMethods == {"none", "demucs", "spleeter"}

\* The sources argument: not given, or a list of stem names.
SourceChoices == {{}, {"drums"}, SupportedStems}

\* _prepare_audio_for_demucs converts .mp3, .m4a and .aac inputs to WAV.
NeedsConversion(path) == path = YoutubePath

\* What the environment does during a call: the ffmpeg conversion, the
\* engine's exit status, its output directory, the stem files it wrote and
\* those of them that cannot be moved.
EnvRec(convert, exit, outdir, produced, unmovable) ==
    [convert |-> convert, exit |-> exit, outdir |-> outdir,
     produced |-> produced, unmovable |-> unmovable]

Environments ==
    {EnvRec("fail", 0, TRUE, SupportedStems, {}),
     EnvRec("ok", 1, FALSE, {}, {}),
     EnvRec("ok", 1, TRUE, {"drums"}, {}),
     EnvRec("ok", 0, FALSE, {}, {}),
     EnvRec("ok", 0, TRUE, {"drums", "piano"}, {})}
    \cup {EnvRec("ok", 0, TRUE, p, u) :
            p \in ProducedChoices, u \in {{}, {"drums"}}}

\* _prepare_audio_for_demucs (179-243): a missing or empty file raises;
\* the ValueErrors for a file without audio stream and for a duration
\* <= 0 are raised inside the inner try, whose except clause logs
\* "ffprobe failed" and goes on; a failed conversion raises.
PrepareAudioForDemucs(path, audio, env) ==
    IF ~audio.exists THEN "raise"
    ELSE IF audio.size = 0 THEN "raise"
    ELSE IF NeedsConversion(path) /\ env.convert = "fail" THEN "raise"
    ELSE "ready"

\* How a step of a call went: it raised or not, it started the engine
\* subprocess or not, and the stems it has (names, then files).
CallRec(raised, started, stems) ==
    [raised |-> raised, started |-> started, stems |-> stems]

\* Variant: a stem file missing from the output directory is an error.
SeparateDemucs_Strict(path, audio, env) ==
    IF ~audio.exists THEN CallRec(TRUE, FALSE, {})
    ELSE IF PrepareAudioForDemucs(path, audio, env) = "raise"
    THEN CallRec(TRUE, FALSE, {})
    ELSE IF env.exit # 0 \/ ~env.outdir THEN CallRec(TRUE, TRUE, {})
    ELSE IF ~(SupportedStems \subseteq env.produced)
    THEN CallRec(TRUE, TRUE, {})
    ELSE CallRec(FALSE, TRUE, SupportedStems)

\* _separate_demucs (319-398): the input check, the preparation, the
\* subprocess (a non-zero exit raises, 131-177), the output directory
\* (its absence raises), then the stem files found in it.
SeparateDemucs(path, audio, env) ==
    IF ~audio.exists THEN CallRec(TRUE, FALSE, {})
    ELSE IF PrepareAudioForDemucs(path, audio, env) = "raise"
    THEN CallRec(TRUE, FALSE, {})
    ELSE IF env.exit # 0 THEN CallRec(TRUE, TRUE, {})
    ELSE IF ~env.outdir THEN CallRec(TRUE, TRUE, {})
    ELSE CallRec(FALSE, TRUE, env.produced \cap SupportedStems)

\* _separate_spleeter (400-430): the subprocess is run on the path as
\* given (check=True raises on a non-zero exit); the stems are the
\* files found in the output directory.
SeparateSpleeter(path, audio, env) ==
    IF env.exit # 0 THEN CallRec(TRUE, TRUE, {})
    ELSE CallRec(FALSE, TRUE,
                IF env.outdir THEN env.produced \cap SupportedStems ELSE {})

StemFile(stem, size, content) ==
    [stem |-> stem, size |-> size, content |-> content]

\* SourceSeparator.separate (432-516): the files <job_id>_<stem>.wav it
\* leaves in the temp dir. Method 'none' copies the input to the two
\* placeholder stems; 'demucs' skips a stem it cannot move; 'spleeter'
\* lets the error of a move out.
SeparateStems(path, audio, method, env) ==
    CASE method = "none" ->
            IF ~audio.exists THEN CallRec(TRUE, FALSE, {})
            ELSE CallRec(FALSE, FALSE,
                     {StemFile(st, audio.size, "input") :
                         st \in PlaceholderStems})
      [] method = "demucs" ->
            LET run == SeparateDemucs(path, audio, env) IN
            IF run.raised THEN CallRec(TRUE, run.started, {})
            ELSE CallRec(FALSE, TRUE,
                     {StemFile(st, 1, "stem") :
                         st \in run.stems \ env.unmovable})
      [] method = "spleeter" ->
            LET run == SeparateSpleeter(path, audio, env) IN
            IF run.raised \/ run.stems \cap env.unmovable # {}
            THEN CallRec(TRUE, TRUE, {})
            ELSE CallRec(FALSE, TRUE,
                     {StemFile(st, 1, "stem") : st \in run.stems})

\* What the engine did, as far as the call got to it.
EngineOf(call, env) ==
    IF call.started
    THEN LET there == env.outdir /\ env.exit = 0 IN
         EngineRec(TRUE, env.exit, there,
                   IF there THEN env.produced ELSE {},
                   IF there THEN env.unmovable \cap env.produced ELSE {})
    ELSE NoEngine

\* What a caller that makes several calls keeps of each, as the scripts
\* testing the function do: the flag it passed, success,
\* separation_enabled and whether original_file is the path it passed;
\* created: create_source_separator() returned a separator in that call.
Outcome(separate, path, result, created) ==
    [separate |-> separate, success |-> result.success,
     separation_enabled |-> result.separation_enabled,
     original_is_input |-> result.original_file = path,
     created |-> created]

\* process_with_separation(input_path, job_id, separate, sources, method)
\* (556-631): it makes a separator with the default temp dir and cleanup,
\* calls separate() when asked to, and returns; the separator, a local,
\* is destroyed at the return and __del__ (532-540) removes the temp dir
\* with the files in it.
CallProcessWithSeparation ==
    /\ callPc = "idle"
    /\ Len(results) < MaxCalls
    /\ \E path \in InputPaths, audio \in AudioFiles, separate \in BOOLEAN,
          method \in AllMethods, sources \in SourceChoices,
          env \in Environments, setup \in {"ok", "setup_fail"} :
        LET call == IF setup = "ok" /\ separate
                    THEN SeparateStems(path, audio, method, env)
                    ELSE CallRec(FALSE, FALSE, {})
            outcome == IF setup # "ok" THEN "setup_fail"
                       ELSE IF call.raised THEN "engine_fail" ELSE "ok"
            result == ProcessWithSeparation(path, separate, outcome)
        IN  /\ request' = RequestRec("process_with_separation", path, audio,
                                     separate, method, sources)
            /\ reply' = ReplyRec(FALSE, result,
                            IF result.separation_enabled
                            THEN {f.stem : f \in call.stems} ELSE {})
            /\ engineRun' = EngineOf(call, env)
            /\ writtenFiles' = call.stems
            /\ presentFiles' = {}
            /\ results' = Append(results,
                            Outcome(separate, path, result, setup = "ok"))
    /\ callPc' = "received"
    /\ UNCHANGED <<orchVars, sepVars, stdVars, trVars, progVars>>

\* separate() on a separator the caller made and keeps, as test_t48 does
\* (SourceSeparator(temp_dir, cleanup=False), lines 28-53).
CallSeparate ==
    /\ callPc = "idle"
    /\ \E path \in InputPaths, audio \in AudioFiles, method \in AllMethods,
          env \in Environments :
        LET call == SeparateStems(path, audio, method, env) IN
        /\ request' = RequestRec("separate", path, audio, TRUE, method, {})
        /\ reply' = ReplyRec(call.raised, NoResult,
                             {f.stem : f \in call.stems})
        /\ engineRun' = EngineOf(call, env)
        /\ writtenFiles' = call.stems
        /\ presentFiles' = call.stems
    /\ callPc' = "received"
    /\ UNCHANGED results
    /\ UNCHANGED <<orchVars, sepVars, stdVars, trVars, progVars>>

\* The caller (the next stage) has read the result and is done with it.
UseResult ==
    /\ callPc = "received"
    /\ callPc' = "idle"
    /\ request' = NoRequest
    /\ reply' = ReplyRec(FALSE, NoResult, {})
    /\ engineRun' = NoEngine
    /\ writtenFiles' = {}
    /\ presentFiles' = {}
    /\ UNCHANGED results
    /\ UNCHANGED <<orchVars, sepVars, stdVars, trVars, progVars>>

InitCaller ==
    /\ Init
    /\ config
    /\ jobIn = [source_type |-> "upload", youtube_url |-> FALSE,
                separate |-> TRUE, drums |-> TRUE]
    /\ job.source_object_path = UploadPath

NextCaller ==
    \/ CallProcessWithSeparation
    \/ CallSeparate
    \/ UseResult

SpecCaller == InitCaller /\ [][NextCaller]_vars

\* ---------------------------------------------------------------------
\* standardize_drum_midi (midi_standardizer.py)
\* ---------------------------------------------------------------------

\* Times are whole ticks; with the tempos below every grid interval is a
\* whole number of ticks.
TicksPerSecond == 24

Tempos == {60, 120}

\* The grids quantize_to_grid knows; any other string is a grid too.
Grids == {"1/16", "1/12", "1/8"}

\* Keys of GM_PERC_MAP.
GM_PERC_MAP == {36, 38, 42, 46, 44, 45, 47, 48, 50, 49, 51, 52, 57}

\* MIDI data bytes: pitches and velocities.
MidiValues == 0..127

\* A note shorter than this, in ms, is a glitch.
GlitchMs == 25

\* note_duration of every output note, in ms.
NoteDurationMs == 100

\* grid_divisions of quantize_to_grid.
GridDivisions(g) ==
    CASE g = "1/16" -> 16
      [] g = "1/12" -> 12
      [] g = "1/8" -> 8
      [] OTHER -> 16

\* seconds_per_grid, in ticks: (60 / tempo) / (grid_divisions / 4).
SecondsPerGrid(g, bpm) == (240 * TicksPerSecond) \div (bpm * GridDivisions(g))

\* round(n / d) of Python 3: to the nearest integer, a tie to the even one.
Round(n, d) ==
    LET q == n \div d
        r == n % d
    IN  IF 2 * r < d THEN q
        ELSE IF 2 * r > d THEN q + 1
        ELSE IF q % 2 = 0 THEN q ELSE q + 1

\* Variant: the time is returned as it is.
QuantizeToGrid_Unsnapped(time, g, bpm) == time

\* quantize_to_grid(time_seconds, grid, tempo). The division is one of
\* binary64 numbers: on the grid 1/12 the interval (1/3 s, 1/6 s) is not
\* representable, and for the times listed the quotient is the first
\* double above k + 0.5 (2.5000000000000004), which round() takes up; for
\* every other time up to two seconds the quotient is rounded as the exact
\* one is.
QuantizeToGrid(time, g, bpm) ==
    LET interval == SecondsPerGrid(g, bpm)
        above == /\ g = "1/12"
                 /\ <<bpm, time>> \in {<<60, 20>>, <<120, 10>>, <<120, 34>>}
    IN  IF above THEN (time \div interval + 1) * interval
        ELSE Round(time, interval) * interval

\* pitch_mapping of normalize_gm_percussion (of the two entries for 43,
\* the later one is the dict's).
PitchMapping(pitch) ==
    CASE pitch = 35 -> 36
      [] pitch = 37 -> 38
      [] pitch = 40 -> 38
      [] pitch = 41 -> 45
      [] pitch = 43 -> 47
      [] pitch = 53 -> 51
      [] pitch = 55 -> 49
      [] OTHER -> pitch

\* normalize_gm_percussion(pitch)
NormalizeGmPercussion(pitch) ==
    IF pitch \in GM_PERC_MAP THEN pitch ELSE PitchMapping(pitch)

\* Variant: ghost notes scaled to 25..45.
GhostVelocity_Wide(velocity) ==
    IF velocity < 40 THEN 25 + (velocity * 20) \div 40 ELSE velocity

\* Variant: ghost notes scaled downwards, from 35 to 26.
GhostVelocity_Inverted(velocity) ==
    IF velocity < 40 THEN 35 - (velocity * 10) \div 40 ELSE velocity

\* Rule 4: int(25 + (velocity / 40.0) * 10) when velocity < 40.
GhostVelocity(velocity) ==
    IF velocity < 40 THEN 25 + (velocity * 10) \div 40 ELSE velocity

\* An input note: start in ticks, end - start in ms.
RawEvent(time, pitch, velocity, duration) ==
    [time |-> time, pitch |-> pitch, velocity |-> velocity, duration |-> duration]

\* Variant: no event is dropped.
KeptEvents_All(raw) == raw

\* The events the loop over raw_events keeps (rule 4: glitches dropped).
KeptEvents(raw) == SelectSeq(raw, LAMBDA ev : ~(ev.duration < GlitchMs))

\* The loop over raw_events (lines 160-184).
ProcessEvents(raw, g, bpm) ==
    LET kept == KeptEvents(raw) IN
    [i \in 1..Len(kept) |->
        [time |-> QuantizeToGrid(kept[i].time, g, bpm),
         pitch |-> NormalizeGmPercussion(kept[i].pitch),
         velocity |-> GhostVelocity(kept[i].velocity),
         original_time |-> kept[i].time]]

\* The keys of time_groups, as sorted() orders them.
SlotTimes(events) == {events[i].time : i \in 1..Len(events)}

\* Variant: the slots taken latest first.
RECURSIVE Ascending_Reversed(_)
Ascending_Reversed(S) ==
    IF S = {} THEN <<>>
    ELSE LET m == CHOOSE x \in S : \A y \in S : x >= y
         IN  <<m>> \o Ascending_Reversed(S \ {m})

RECURSIVE Ascending(_)
Ascending(S) ==
    IF S = {} THEN <<>>
    ELSE LET m == CHOOSE x \in S : \A y \in S : x <= y
         IN  <<m>> \o Ascending(S \ {m})

\* Variant: the first event of a pitch is kept, whatever its velocity.
RECURSIVE UniqueEvents_KeepFirst(_, _)
UniqueEvents_KeepFirst(events, unique) ==
    IF events = <<>> THEN unique
    ELSE LET ev == Head(events)
             at == {k \in 1..Len(unique) : unique[k].pitch = ev.pitch}
         IN  UniqueEvents_KeepFirst(Tail(events),
                 IF at = {} THEN Append(unique, ev) ELSE unique)

\* unique_events of one time slot (lines 214-218): a dict keyed by pitch,
\* in the order the pitches first appear; a later event of a pitch
\* replaces the stored one when its velocity is greater.
RECURSIVE UniqueEvents(_, _)
UniqueEvents(events, unique) ==
    IF events = <<>> THEN unique
    ELSE LET ev == Head(events)
             at == {k \in 1..Len(unique) : unique[k].pitch = ev.pitch}
         IN  UniqueEvents(Tail(events),
                 IF at = {} THEN Append(unique, ev)
                 ELSE LET k == CHOOSE k \in at : TRUE
                      IN  IF ev.velocity > unique[k].velocity
                          THEN [unique EXCEPT ![k] = ev]
                          ELSE unique)

\* Variant: output notes of 20 ms.
Note_Short(velocity, pitch, start) ==
    [velocity |-> velocity, pitch |-> pitch, start |-> start, duration |-> 20]

\* pretty_midi.Note(velocity, pitch, start, end), end - start in ms.
Note(velocity, pitch, start) ==
    [velocity |-> velocity, pitch |-> pitch, start |-> start,
     duration |-> NoteDurationMs]

\* The notes appended for one time slot (lines 221-228).
SlotNotes(time, events) ==
    LET unique == UniqueEvents(SelectSeq(events, LAMBDA ev : ev.time = time), <<>>)
    IN  [i \in 1..Len(unique) |-> Note(unique[i].velocity, unique[i].pitch, time)]

RECURSIVE MergeSlots(_, _)
MergeSlots(times, events) ==
    IF times = <<>> THEN <<>>
    ELSE SlotNotes(Head(times), events) \o MergeSlots(Tail(times), events)

\* Rule 2 (lines 188-228): the notes of the standardized drum track.
MergeEvents(events) == MergeSlots(Ascending(SlotTimes(events)), events)

\* Input files. A file of one note: any start up to MaxTime, any pitch or
\* any velocity, short or long. A file of several notes: notes close to
\* each other, of three pitches (two of one class) and two velocities. A
\* file of a kick and a snare: any velocity beside the next one, and
\* beside 39, 40 and 127.
SamplePitches == {35, 36, 38}
SampleVelocities == {30, 100}
SampleDurations == {24, 25}
ChordTimes == {0, 2}

SingleNotes ==
    {RawEvent(t, p, v, d) :
        t \in 0..MaxTime, p \in MidiValues, v \in SampleVelocities, d \in SampleDurations}
    \cup
    {RawEvent(t, p, v, d) :
        t \in 0..MaxTime, p \in SamplePitches, v \in MidiValues, d \in SampleDurations}

ChordNotes ==
    {RawEvent(t, p, v, NoteDurationMs) :
        t \in ChordTimes, p \in SamplePitches, v \in SampleVelocities}
    \cup
    {RawEvent(0, p, 127, 24) : p \in {36, 38}}

InputFiles ==
    {<<>>} \cup {<<ev>> : ev \in SingleNotes}
           \cup UNION {[1..n -> ChordNotes] : n \in 2..MaxNotes}
           \cup {<<RawEvent(0, 36, p[1], NoteDurationMs),
                    RawEvent(0, 38, p[2], NoteDurationMs)>> :
                      p \in {x \in MidiValues \X MidiValues :
                                x[2] \in {x[1] + 1, 39, 40, 127}}}

\* Lines 120-153: the file is loaded and its drum track read. A file of
\* at most one note comes with every tempo and with every grid, a string
\* quantize_to_grid does not know included; a file of several notes with
\* tempo 120, at which their times fall into different grid slots, and a
\* known grid.
LoadMidi ==
    /\ stdPc = "idle"
    /\ \E g \in Grids \cup {"1/32"}, bpm \in Tempos, file \in InputFiles :
        /\ Len(file) <= 1 \/ (g \in Grids /\ bpm = 120)
        /\ grid' = g
        /\ tempo' = bpm
        /\ raw_events' = file
    /\ stdPc' = "loaded"
    /\ UNCHANGED <<processed_events, notes, previous, pass>>

\* The output file of the first call is given to a second call with the
\* same grid and tempo: its notes are the raw events (lines 146-153).
LoadOutput ==
    /\ stdPc = "written"
    /\ pass = 1
    /\ raw_events' = [k \in 1..Len(notes) |->
           RawEvent(notes[k].start, notes[k].pitch, notes[k].velocity,
                    notes[k].duration)]
    /\ previous' = notes
    /\ pass' = 2
    /\ stdPc' = "loaded"
    /\ UNCHANGED <<grid, tempo, processed_events, notes>>

\* Lines 157-186: rules 4, 1 and 3 on every raw event.
ProcessRawEvents ==
    /\ stdPc = "loaded"
    /\ processed_events' = ProcessEvents(raw_events, grid, tempo)
    /\ stdPc' = "processed"
    /\ UNCHANGED <<grid, tempo, raw_events, notes, previous, pass>>

\* Lines 188-234: the polyphonic merge and the write of the output file.
MergeAndWrite ==
    /\ stdPc = "processed"
    /\ notes' = MergeEvents(processed_events)
    /\ stdPc' = "written"
    /\ UNCHANGED <<grid, tempo, raw_events, processed_events, previous, pass>>

\* One call of standardize_drum_midi on an input file.
InitStandardizer ==
    /\ Init
    /\ config
    /\ jobIn = [source_type |-> "upload", youtube_url |-> FALSE,
                separate |-> TRUE, drums |-> TRUE]
    /\ job.source_object_path = UploadPath

NextStandardizer ==
    /\ \/ LoadMidi
       \/ LoadOutput
       \/ ProcessRawEvents
       \/ MergeAndWrite
    /\ UNCHANGED <<orchVars, sepVars, callVars, trVars, progVars>>

SpecStandardizer == InitStandardizer /\ [][NextStandardizer]_vars

\* ---------------------------------------------------------------------
\* transcribe_drums_to_midi
\* ---------------------------------------------------------------------
\* Times are in milliseconds, confidences and classifier scores in percent.
MaxSamples == 12
MaxWindow == 5

MaxOnsets == 2

\* LABELS, in the order of the keys of GM.
LABELS == <<"kick", "snare", "hihat", "tom", "cymbal">>

\* MIN_GAP, 50 ms.
MinGapMs == 50

\* The model file is missing at both paths, is there but torch.jit.load
\* raises on it, or loads.
ModelFiles == {"absent", "unloadable", "loadable"}

DrumEvent(time, name, vel) == [time |-> time, name |-> name, vel |-> vel]

\* vel = int(min(127, 40 + 87 * p)), for a score or a confidence p.
Velocity(p) ==
    LET v == 40 + (87 * p) \div 100 IN IF v > 127 THEN 127 ELSE v

\* What the onset detection and the band energies find in a recording:
\* up to MaxOnsets onsets in time order, each with its dominant band and
\* that band's share of the energy.
Onsets ==
    [time : {0, 40, 500}, name : {"kick", "snare"}, confidence : {30, 90}]

Recordings ==
    UNION {{s \in [1..n -> Onsets] :
               \A i \in 1..n : \A j \in 1..n : i < j => s[i].time < s[j].time}
           : n \in 0..MaxOnsets}

\* What the sliding-window inference does: it raises, every input format
\* fails on some segment, or it runs through; events holds what was
\* appended until then, one event at the centre of a 3 s segment for each
\* class with a score >= 0.5.
Inferences ==
    {[kind |-> k, events |-> ev] :
        k \in {"raised", "formats_failed", "completed"},
        ev \in {<<>>, <<DrumEvent(1500, "kick", Velocity(50))>>,
                <<DrumEvent(1500, "kick", Velocity(100)),
                  DrumEvent(1500, "snare", Velocity(50))>>}}

\* sorted(cand, key=time): a stable insertion sort.
RECURSIVE SortByTime(_)
SortByTime(s) ==
    IF s = <<>> THEN <<>>
    ELSE LET rest == SortByTime(Tail(s))
             before == SelectSeq(rest, LAMBDA e : e.time < Head(s).time)
             after == SelectSeq(rest, LAMBDA e : e.time >= Head(s).time)
         IN  before \o <<Head(s)>> \o after

\* Lines 221-226: of the time-sorted candidates of one class, keep each
\* that is the first or at least MIN_GAP after the last one kept.
RECURSIVE MinGap(_, _, _)
MinGap(cand, last, kept) ==
    IF cand = <<>> THEN kept
    ELSE IF last < 0 \/ Head(cand).time - last >= MinGapMs
    THEN MinGap(Tail(cand), Head(cand).time, Append(kept, Head(cand)))
    ELSE MinGap(Tail(cand), last, kept)

RECURSIVE FinalEvents(_, _)
FinalEvents(evs, k) ==
    IF k > Len(LABELS) THEN <<>>
    ELSE MinGap(SortByTime(SelectSeq(evs, LAMBDA e : e.name = LABELS[k])),
                -1, <<>>)
         \o FinalEvents(evs, k + 1)

\* Variant: the window that ends at the end of the signal is not added.
ToSegments_NoTail(n, L) ==
    LET hop == L \div 2
        stop == IF n - L + 1 > 1 THEN n - L + 1 ELSE 1
    IN  [i \in 1..((stop + hop - 1) \div hop) |-> (i - 1) * hop]

\* to_segments(y, sr) with overlap 0.5, for len(y) = n and seg_len = L:
\* range(0, max(1, n - L + 1), hop), then max(0, n - L) when the last
\* window ends before the end of the signal.
ToSegments(n, L) ==
    LET hop == L \div 2
        stop == IF n - L + 1 > 1 THEN n - L + 1 ELSE 1
        range == [i \in 1..((stop + hop - 1) \div hop) |-> (i - 1) * hop]
    IN  IF range[Len(range)] + L < n
        THEN Append(range, IF n - L > 0 THEN n - L ELSE 0)
        ELSE range

\* s2t of write_midi, for a time in ms: int(x * (480 * 120 / 60.0)).
S2T(ms) == (ms * ((480 * 120) \div 60)) \div 1000

\* The loop of write_midi over the events sorted by time: a note_on after
\* max(0, s2t(t) - t_prev) ticks, a note_off after s2t(0.1) more, and
\* t_prev = s2t(t) + s2t(0.1).
RECURSIVE WriteMidi(_, _)
WriteMidi(evs, t_prev) ==
    IF evs = <<>> THEN <<>>
    ELSE LET e == Head(evs)
             dt == IF S2T(e.time) - t_prev > 0 THEN S2T(e.time) - t_prev ELSE 0
         IN  <<[type |-> "note_on", name |-> e.name, velocity |-> e.vel, time |-> dt],
               [type |-> "note_off", name |-> e.name, velocity |-> 0,
                time |-> S2T(100)]>>
             \o WriteMidi(Tail(evs), S2T(e.time) + S2T(100))

\* Lines 72-90: the model file is looked up and loaded.
LoadModel ==
    /\ trPc = "start"
    /\ IF modelFile = "absent"
       THEN trPc' = "raised" /\ UNCHANGED use_dldc
       ELSE trPc' = "detect" /\ use_dldc' = (modelFile = "loadable")
    /\ UNCHANGED <<recording, modelFile, inference, drum_events, midiOut,
                   samples, seg_len, starts, midiTrack>>
    /\ UNCHANGED <<orchVars, sepVars, stdVars, callVars, progVars>>

\* Lines 100-164: the sliding-window inference, when the model loaded.
DldcInference ==
    /\ trPc = "detect"
    /\ use_dldc
    /\ starts' = ToSegments(samples, seg_len)
    /\ \E run \in Inferences :
        /\ inference' = IF run.kind # "raised" /\ run.events = <<>>
                         THEN "no_events" ELSE run.kind
        /\ drum_events' = run.events
        /\ IF run.kind = "raised" \/ run.events = <<>>
           THEN use_dldc' = FALSE /\ trPc' = "detect"
           ELSE use_dldc' = TRUE /\ trPc' = "filter"
    /\ UNCHANGED <<recording, modelFile, midiOut, samples, seg_len, midiTrack>>
    /\ UNCHANGED <<orchVars, sepVars, stdVars, callVars, progVars>>

\* Lines 166-214: the frequency-band detection, one event for each onset
\* whose dominant band has a confidence > 0.3.
HeuristicDetection ==
    /\ trPc = "detect"
    /\ ~use_dldc
    /\ LET found == SelectSeq(recording, LAMBDA o : o.confidence > 30)
       IN  drum_events' = drum_events \o
               [i \in 1..Len(found) |->
                   DrumEvent(found[i].time, found[i].name,
                             Velocity(found[i].confidence))]
    /\ trPc' = "filter"
    /\ UNCHANGED <<recording, modelFile, inference, use_dldc, midiOut,
                   samples, seg_len, starts, midiTrack>>
    /\ UNCHANGED <<orchVars, sepVars, stdVars, callVars, progVars>>

\* Lines 216-250: the minimum-gap filter by class, then the MIDI files.
FilterAndWrite ==
    /\ trPc = "filter"
    /\ midiOut' = <<FinalEvents(drum_events, 1)>>
    /\ midiTrack' = WriteMidi(SortByTime(FinalEvents(drum_events, 1)), 0)
    /\ trPc' = "done"
    /\ UNCHANGED <<recording, modelFile, inference, use_dldc, drum_events,
                   samples, seg_len, starts>>
    /\ UNCHANGED <<orchVars, sepVars, stdVars, callVars, progVars>>

\* One call of transcribe_drums_to_midi on a recording.
InitTranscriber ==
    /\ InitOrch /\ InitSep /\ InitStd /\ InitCalls /\ InitProg
    /\ config
    /\ jobIn = [source_type |-> "upload", youtube_url |-> FALSE,
                separate |-> TRUE, drums |-> TRUE]
    /\ job.source_object_path = UploadPath
    /\ recording \in Recordings
    /\ modelFile \in ModelFiles
    /\ inference = "pending"
    /\ use_dldc = FALSE
    /\ drum_events = <<>>
    /\ midiOut = <<>>
    /\ samples \in 0..MaxSamples
    /\ seg_len \in 2..MaxWindow
    /\ starts = <<>>
    /\ midiTrack = <<>>
    /\ trPc = "start"

NextTranscriber ==
    \/ LoadModel
    \/ DldcInference
    \/ HeuristicDetection
    \/ FilterAndWrite

SpecTranscriber == InitTranscriber /\ [][NextTranscriber]_vars

\* ---------------------------------------------------------------------
\* The progress of one demucs separation (source_separator.py)
\* ---------------------------------------------------------------------

\* Lines the engine writes to its output: "Selected model is a bag of n
\* models", "Separating track ...", a tqdm bar "n%|...it/s]", a line
\* with "100%" and no rate, any other line.
MaxLines == 4

OutputLines ==
    {[kind |-> "bag", n |-> k] : k \in {0, 1, 4}}
    \cup {[kind |-> "bar", n |-> p] : p \in {0, 50, 100}}
    \cup {[kind |-> "track", n |-> 0], [kind |-> "hundred", n |-> 100],
          [kind |-> "other", n |-> 0]}

\* Lines 319-345 and 245-293: _separate_demucs prepares the input (the
\* conversion reports 5 and 10) and _run_command_with_progress starts the
\* engine (lines 79-92).
StartEngine ==
    /\ progPc = "start"
    /\ reported' = IF engineOutcome.convert THEN <<5, 10>> ELSE <<>>
    /\ current_progress' = 0
    /\ total_models' = 4
    /\ current_model' = 0
    /\ progPc' = "reading"
    /\ UNCHANGED <<engineOutcome, linesRead, stem_files>>
    /\ UNCHANGED <<orchVars, sepVars, stdVars, callVars, trVars>>

\* Lines 96-129: one line of the engine's output is read and parsed. A
\* bar read when total_models is 0 raises ZeroDivisionError, which
\* line 159 turns into Exception("Demucs execution error").
ReadLine ==
    /\ progPc = "reading"
    /\ linesRead < MaxLines
    /\ linesRead' = linesRead + 1
    /\ \E ln \in OutputLines :
        LET sum == 10 + (ln.n * 80) \div total_models
                      + (current_model * 80) \div total_models
            overall_progress == IF sum > 90 THEN 90 ELSE sum
        IN  CASE ln.kind = "bag" ->
                    /\ total_models' = ln.n
                    /\ UNCHANGED <<current_progress, current_model, reported, progPc>>
              [] ln.kind = "track" ->
                    /\ current_progress' = 10
                    /\ reported' = Append(reported, 10)
                    /\ UNCHANGED <<total_models, current_model, progPc>>
              [] ln.kind = "bar" /\ total_models = 0 ->
                    /\ progPc' = "raised"
                    /\ UNCHANGED <<current_progress, total_models, current_model, reported>>
              [] ln.kind = "bar" /\ total_models # 0 ->
                    /\ IF overall_progress > current_progress
                       THEN /\ current_progress' = overall_progress
                            /\ reported' = Append(reported, overall_progress)
                       ELSE UNCHANGED <<current_progress, reported>>
                    /\ UNCHANGED <<total_models, current_model, progPc>>
              [] ln.kind = "hundred" ->
                    /\ current_model' = IF current_model < total_models - 1
                                        THEN current_model + 1 ELSE current_model
                    /\ UNCHANGED <<current_progress, total_models, reported, progPc>>
              [] ln.kind = "other" ->
                    UNCHANGED <<current_progress, total_models, current_model,
                                reported, progPc>>
    /\ UNCHANGED <<engineOutcome, stem_files>>
    /\ UNCHANGED <<orchVars, sepVars, stdVars, callVars, trVars>>

\* Lines 131-157: the output has ended and the engine exited; code 0
\* reports 95, any other code raises.
ProcessExit ==
    /\ progPc = "reading"
    /\ IF engineOutcome.exit = 0
       THEN reported' = Append(reported, 95) /\ progPc' = "exited"
       ELSE reported' = reported /\ progPc' = "raised"
    /\ UNCHANGED <<engineOutcome, current_progress, total_models, current_model,
                   linesRead, stem_files>>
    /\ UNCHANGED <<orchVars, sepVars, stdVars, callVars, trVars>>

\* Lines 458-497 of separate: 95 is reported again, the stems the engine
\* left are moved to the job's names, 100 is reported.
ProcessStems ==
    /\ progPc = "exited"
    /\ reported' = reported \o <<95, 100>>
    /\ stem_files' = engineOutcome.produced
    /\ progPc' = "done"
    /\ UNCHANGED <<engineOutcome, current_progress, total_models, current_model,
                   linesRead>>
    /\ UNCHANGED <<orchVars, sepVars, stdVars, callVars, trVars>>

\* One call of separate with method 'demucs' and a progress_callback, on
\* an input the engine can be started on.
InitProgress ==
    /\ InitOrch /\ InitSep /\ InitStd /\ InitCalls /\ InitTr
    /\ config
    /\ jobIn = [source_type |-> "upload", youtube_url |-> FALSE,
                separate |-> TRUE, drums |-> TRUE]
    /\ job.source_object_path = UploadPath
    /\ engineOutcome \in [convert : BOOLEAN, exit : {0, 1},
                          produced : {{"drums"}, SupportedStems}]
    /\ current_progress = 0
    /\ total_models = 4
    /\ current_model = 0
    /\ linesRead = 0
    /\ reported = <<>>
    /\ stem_files = {}
    /\ progPc = "start"

NextProgress ==
    \/ StartEngine
    \/ ReadLine
    \/ ProcessExit
    \/ ProcessStems

SpecProgress == InitProgress /\ [][NextProgress]_vars

TypeOK ==
    /\ job.status \in {"PENDING", "RUNNING"} \cup Terminal
    /\ job.progress \in 0..100
    /\ artifacts \in Nat
    /\ \A f \in fs : f.dir \in dirs /\ f.stem \in SupportedStems
    /\ \A j \in Jobs : jobSep[j].stems \subseteq SupportedStems

\* ---------------------------------------------------------------------
\* Properties of process_job
\* ---------------------------------------------------------------------
Finished(e) == pc[e] \in {"returned", "raised"}

Range(q) == {q[i] : i \in 1..Len(q)}

\* Failures that stay inside a stage block or are only logged.
ContainedFaults == {"pre", "pre_write", "tr", "sep_engine", "sep_setup",
                    "sep_import", "progress_nodata", "artifact_nodata"}

\* C1: an execution of process_job never applies two terminal status
\* writes to the job row (SUCCEEDED and then FAILED, or the reverse),
\* whatever step raises.
C1_OneTerminalWrite == Len(termWrites) <= 1

\* C2: once the persisted status is SUCCEEDED or FAILED, no step of any
\* execution changes the row's status or progress.
C2_TerminalIsFinal ==
    [][job.status \in Terminal =>
          /\ job'.status = job.status
          /\ job'.progress = job.progress]_vars

\* C3: no state has status SUCCEEDED with no artifact row for the job.
C3_SucceededHasArtifact == job.status = "SUCCEEDED" => artifacts >= 1

\* C4: when separation is requested and the engine invocation fails, the
\* result handed to process_job has success = TRUE, separation disabled
\* and a note, and the run, nothing else raising, returns with SUCCEEDED
\* as its one terminal write.
C4_FallbackLaw ==
    "sep_engine" \in faults =>
        /\ sepRes.success
        /\ ~sepRes.separation_enabled
        /\ sepRes.note # NoValue
        /\ (Finished(Observed) /\ faults \subseteq ContainedFaults) =>
               /\ pc[Observed] = "returned"
               /\ termWrites = <<"SUCCEEDED">>

C4_Witness ==
    /\ pc[Observed] = "returned"
    /\ "sep_engine" \in faults
    /\ termWrites = <<"SUCCEEDED">>
    /\ job.status = "SUCCEEDED"

C6_ErrorMessagePersisted ==
    job.status = "FAILED" => job.error_message = exc

\* C7: a run in which nothing but status/progress writes failed (no data
\* returned, or an exception) ends SUCCEEDED, not FAILED.
C7_WriteFailureNotFatal ==
    (/\ Finished(Observed)
     /\ faults # {}
     /\ faults \subseteq {"progress_nodata", "progress_raise", "pre_write"}) =>
        /\ pc[Observed] = "returned"
        /\ job.status = "SUCCEEDED"

\* Executions that are past their first write and not yet finished.
Writers == {e \in Runs : pc[e] \notin {"idle", "w0", "handler", "returned", "raised"}}

\* C8: at most one execution at a time writes the job row, the persisted
\* status never goes from SUCCEEDED/FAILED back to RUNNING and persisted
\* progress never decreases.
C8_SingleWriter ==
    [][/\ Cardinality(Writers') <= 1
       /\ (job.status \in Terminal => job'.status # "RUNNING")
       /\ job'.progress >= job.progress]_vars

\* C9: no two jobs whose separation ran, and that are still running or
\* still use its result, have the same temp directory, and the teardown of
\* one job's SourceSeparator never removes files of another job that is
\* still running or whose result is still in use.
C9_ExclusiveTempDir ==
    /\ \A j, k \in Jobs :
           (/\ j # k
            /\ Active(j) /\ Active(k)
            /\ jobSep[j].dir # NoValue /\ jobSep[k].dir # NoValue) =>
               jobSep[j].dir # jobSep[k].dir
    /\ clobbered = {}

StageRank(st) ==
    CASE st = "normalize" -> 1
      [] st = "separate" -> 2
      [] st = "transcribe" -> 3
      [] st = "standardize" -> 4
      [] st = "artifact" -> 5

ProducedBefore(i, stage, path) ==
    \E j \in 1..(i - 1) : flow[j] = FlowRec(stage, "write", path)

\* C11: within a run each stage consumes the previous stage's output: the
\* locator the separation stage reads was written by normalization, the
\* locator drum transcription reads is the drums stem when separation
\* wrote one and otherwise a locator normalization wrote; no stage reads
\* a locator that no earlier stage of the run produced.
C11_StagesChained ==
    \A i \in 1..Len(flow) :
        flow[i].kind = "read" =>
            CASE flow[i].stage = "separate" ->
                     ProducedBefore(i, "normalize", flow[i].path)
              [] flow[i].stage = "transcribe" ->
                     IF ProducedBefore(i, "separate", DrumsStem)
                     THEN flow[i].path = DrumsStem
                     ELSE ProducedBefore(i, "normalize", flow[i].path)

\* The run fetched its job and issued its first write.
Started == writes # <<>> /\ writes[1].at = "w0"

LastWrite == writes[Len(writes)]

\* The store applied the last status write the run issued.
LastWriteApplied ==
    /\ termWrites # <<>>
    /\ termWrites[Len(termWrites)] = LastWrite.status

ProgressWrites == {i \in 1..Len(writes) : writes[i].at # "handler"}

PastSeparation == pc[Observed] \in {"w85", "tr", "w90", "w100", "art", "returned"}

\* C14: while the separation stage runs, the adapter's progress p in
\* 0..100 is written to the job row as 75 + 15*p/100; so a run whose
\* separation engine ran to completion (p = 100) has issued, at the
\* separation stage, a write of 75 + 15*100/100.
C14_SeparationProgressWritten ==
    (PastSeparation /\ sepRes.separation_enabled) =>
        \E i \in ProgressWrites :
            /\ writes[i].at = "sep"
            /\ writes[i].progress = 75 + (15 * 100) \div 100

\* The job's source is invalid: source_type is neither 'upload' nor
\* 'youtube', or it is 'youtube' and the job has no youtube_url.
InvalidSource ==
    \/ jobIn.source_type \notin {"upload", "youtube"}
    \/ jobIn.source_type = "youtube" /\ ~jobIn.youtube_url

\* C15: a run of a job with an invalid source enters no stage
\* (preprocessing, separation, transcription, artifact), writes no
\* progress above 25, never writes SUCCEEDED, and ends by re-raising
\* after the handler's FAILED write, which leaves the row FAILED when the
\* store applies it.
C15_InputErrorFailsFast ==
    InvalidSource =>
        /\ stages = <<>>
        /\ flow = <<>>
        /\ \A i \in ProgressWrites : writes[i].progress <= 25
        /\ job.progress <= 25
        /\ job.status # "SUCCEEDED"
        /\ pc[Observed] # "returned"
        /\ (pc[Observed] = "raised" /\ config) =>
               /\ LastWrite = WriteRec("handler", NoProgress, "FAILED")
               /\ LastWriteApplied => job.status = "FAILED"

C15_Witness ==
    /\ jobIn.source_type = "other"
    /\ pc[Observed] = "raised"
    /\ exc = MsgSource
    /\ job.status = "FAILED"
    /\ job.progress = 25

\* C16: an artifact record exists only for content that a stage of the
\* run produced (some stage wrote the record's storage path), and never in
\* a run that ends FAILED.
C16_ArtifactOfStageOutput ==
    artifacts >= 1 =>
        /\ \E i \in 1..Len(flow) : flow[i].kind = "write" /\ flow[i].path = ArtifactPath
        /\ pc[Observed] # "raised"

\* ---------------------------------------------------------------------
\* Properties of standardize_drum_midi
\* ---------------------------------------------------------------------

\* The processed events that share the snapped time and the pitch of
\* processed event i.
SameHit(i) ==
    {j \in 1..Len(processed_events) :
        /\ processed_events[j].time = processed_events[i].time
        /\ processed_events[j].pitch = processed_events[i].pitch}

\* C17: the events that snap to one grid time give exactly one output note
\* per distinct pitch among them, N notes for N distinct pitches; events
\* of one pitch at one snapped time give one note, whose velocity is the
\* greatest of theirs; no two output notes have the same (time, pitch).
C17_PolyphonicMerge ==
    stdPc = "written" =>
        /\ \A t \in SlotTimes(processed_events) :
               Cardinality({k \in 1..Len(notes) : notes[k].start = t})
                   = Cardinality({processed_events[i].pitch :
                                     i \in {j \in 1..Len(processed_events) :
                                               processed_events[j].time = t}})
        /\ \A i \in 1..Len(processed_events) :
               \E k \in 1..Len(notes) :
                   /\ notes[k].start = processed_events[i].time
                   /\ notes[k].pitch = processed_events[i].pitch
                   /\ \E j \in SameHit(i) :
                          notes[k].velocity = processed_events[j].velocity
                   /\ \A j \in SameHit(i) :
                          processed_events[j].velocity <= notes[k].velocity
        /\ \A k \in 1..Len(notes) : notes[k].start \in SlotTimes(processed_events)
        /\ \A k, l \in 1..Len(notes) :
               (notes[k].start = notes[l].start /\ notes[k].pitch = notes[l].pitch)
                   => k = l

C17_Witness ==
    /\ stdPc = "written"
    /\ Len(processed_events) = 3
    /\ Len(notes) = 2
    /\ notes[1].start = notes[2].start
    /\ notes[1].pitch # notes[2].pitch
    /\ processed_events[1].pitch = processed_events[3].pitch
    /\ processed_events[1].velocity < processed_events[3].velocity
    /\ notes[1].velocity = processed_events[3].velocity

C19_ClosedPercussionMap ==
    stdPc = "written" =>
        \A k \in 1..Len(notes) : notes[k].pitch \in GM_PERC_MAP

\* C20: an event kept with input velocity v < 40 gets a velocity in
\* 25..35, one with v >= 40 keeps v, for every v in 0..127; the velocity
\* of every output note is that of a processed event of its time and
\* pitch.
C20_GhostNoteLaw ==
    stdPc \in {"processed", "written"} =>
        /\ Len(processed_events) = Len(KeptEvents(raw_events))
        /\ \A i \in 1..Len(processed_events) :
               LET v == KeptEvents(raw_events)[i].velocity IN
               IF v < 40
               THEN processed_events[i].velocity \in 25..35
               ELSE processed_events[i].velocity = v
        /\ stdPc = "written" =>
               \A k \in 1..Len(notes) :
                   \E i \in 1..Len(processed_events) :
                       /\ processed_events[i].time = notes[k].start
                       /\ processed_events[i].pitch = notes[k].pitch
                       /\ processed_events[i].velocity = notes[k].velocity

C20_Witness ==
    /\ stdPc = "written"
    /\ Len(raw_events) = 1
    /\ raw_events[1].velocity = 39
    /\ Len(notes) = 1
    /\ notes[1].velocity = 34

\* The input notes that last at least 25 ms.
LongNotes == SelectSeq(raw_events, LAMBDA ev : ev.duration >= 25)

\* C21: an input note shorter than 25 ms contributes nothing: the output
\* is the output of the same file without its notes shorter than 25 ms
\* (no note comes from one, no kept velocity is one's), and every output
\* note has the snapped time and the class of a note of at least 25 ms.
C21_GlitchLaw ==
    stdPc = "written" =>
        /\ notes = MergeEvents(ProcessEvents(LongNotes, grid, tempo))
        /\ \A k \in 1..Len(notes) :
               \E i \in 1..Len(LongNotes) :
                   /\ notes[k].start = QuantizeToGrid(LongNotes[i].time, grid, tempo)
                   /\ notes[k].pitch = NormalizeGmPercussion(LongNotes[i].pitch)
                   /\ notes[k].velocity = GhostVelocity(LongNotes[i].velocity)
        /\ LongNotes = <<>> => notes = <<>>

C21_Witness ==
    /\ stdPc = "written"
    /\ pass = 1
    /\ Len(raw_events) = 2
    /\ raw_events[1] = RawEvent(0, 36, 100, NoteDurationMs)
    /\ raw_events[2] = RawEvent(0, 36, 127, 24)
    /\ notes = <<Note(100, 36, 0)>>

\* The output of the first call is on the grid, has GM pitches only and
\* velocities of 40 or more.
AlreadyStandard ==
    \A k \in 1..Len(previous) :
        /\ previous[k].start % SecondsPerGrid(grid, tempo) = 0
        /\ previous[k].pitch \in GM_PERC_MAP
        /\ previous[k].velocity >= 40

C23_AscendingTime ==
    stdPc = "written" =>
        \A k, l \in 1..Len(notes) : k < l => notes[k].start <= notes[l].start

C23_Witness ==
    /\ stdPc = "written"
    /\ pass = 1
    /\ Len(raw_events) = 3
    /\ raw_events[1].time > raw_events[2].time
    /\ Len(notes) = 3
    /\ notes[1].start < notes[3].start

\* ---------------------------------------------------------------------
\* Properties of the separation calls
\* ---------------------------------------------------------------------
\* The call in progress went through separate() and got its stem map.
Separated ==
    /\ callPc = "received"
    /\ IF request.api = "process_with_separation"
       THEN reply.result.separation_enabled
       ELSE request.api = "separate" /\ ~reply.raised

\* C24: with method = none the stem map returned has exactly one entry for
\* each requested stem name, and each entry is a file whose content is
\* that of the input; requesting vocals, drums, bass and other yields
\* those four keys.
C24_PassThroughStems ==
    (Separated /\ request.method = "none" /\ request.sources # {}) =>
        /\ reply.stems = request.sources
        /\ \A f \in writtenFiles :
               f.content = "input" /\ f.size = request.audio.size

\* C25: whenever the engine subprocess of a process_with_separation call
\* exits non-zero or leaves none of its expected output files, the call
\* returns success = TRUE, separation_enabled = FALSE and original_file =
\* the input path, and never a result with separation_enabled = TRUE.
C25_EngineFailureFallsBack ==
    (/\ callPc = "received"
     /\ request.api = "process_with_separation"
     /\ engineRun.started
     /\ (engineRun.exit # 0 \/ engineRun.produced \cap SupportedStems = {}))
    =>  /\ reply.result.success
        /\ ~reply.result.separation_enabled
        /\ reply.result.original_file = request.path

InvalidAudio ==
    \/ ~request.audio.exists
    \/ request.audio.size = 0
    \/ ~request.audio.stream
    \/ request.audio.duration <= 0

\* C27: an input that fails validation is rejected with an error before
\* the engine is invoked: for such an input the engine subprocess is
\* never started.
C27_InvalidInputRejected ==
    (/\ callPc = "received"
     /\ request.separate
     /\ request.method \in {"demucs", "spleeter"}
     /\ InvalidAudio)
    =>  /\ ~engineRun.started
        /\ IF request.api = "separate" THEN reply.raised
           ELSE reply.result.error # NoValue

\* C28: after a successful separation, from separate() or from
\* process_with_separation with separation_enabled = TRUE, the stem map is
\* not empty and every stem path in it is an existing, non-empty file
\* when the caller has the result; the teardown of the separator has not
\* removed it.
C28_StemsAvailable ==
    Separated =>
        /\ reply.stems # {}
        /\ \A st \in reply.stems :
               \E f \in presentFiles : f.stem = st /\ f.size > 0

C30_ClassifierFallback ==
    (/\ trPc \notin {"idle", "start"}
     /\ \/ modelFile \in {"absent", "unloadable"}
        \/ inference \in {"raised", "no_events"})
    =>  /\ trPc # "raised"
        /\ ~use_dldc
        /\ trPc = "done" => midiOut # <<>>

\* C31: the onset detection emits every accepted onset event unmodified:
\* the events written are the accepted events, each with the time, class
\* and velocity it was detected with; none is snapped to a grid and none
\* is removed for being a duplicate of, or close to, another.
C31_EventsUnmodified ==
    trPc = "done" =>
        /\ Len(midiOut[1]) = Len(drum_events)
        /\ \A i \in 1..Len(drum_events) :
               \E k \in 1..Len(midiOut[1]) : midiOut[1][k] = drum_events[i]

C33_VelocityOrderKept ==
    stdPc \in {"processed", "written"} =>
        \A i, j \in 1..Len(processed_events) :
            KeptEvents(raw_events)[i].velocity < KeptEvents(raw_events)[j].velocity
                => processed_events[i].velocity <= processed_events[j].velocity

C33_Witness ==
    /\ stdPc = "processed"
    /\ Len(raw_events) = 2
    /\ raw_events[1].velocity = 3
    /\ raw_events[2].velocity = 4
    /\ processed_events[1].velocity = 25
    /\ processed_events[2].velocity = 26
\* C34: within one execution of process_job the progress values written
\* to the job row never decrease and stay within 0..100; 100 is written
\* only with status SUCCEEDED, every value below 100 with status RUNNING.
C34_ProgressMonotone ==
    \A i \in ProgressWrites :
        /\ writes[i].progress \in 0..100
        /\ writes[i].progress = 100 => writes[i].status = "SUCCEEDED"
        /\ writes[i].progress < 100 => writes[i].status = "RUNNING"
        /\ \A j \in ProgressWrites :
               i < j => writes[i].progress <= writes[j].progress

C34_Witness ==
    /\ pc[Observed] = "returned"
    /\ Cardinality(ProgressWrites) >= 8
    /\ \E i \in ProgressWrites :
           /\ writes[i].at = "pre"
           /\ i + 1 \in ProgressWrites
           /\ writes[i + 1].progress = writes[i].progress
    /\ \E i \in ProgressWrites :
           writes[i].progress = 100 /\ writes[i].status = "SUCCEEDED"
\* C35: the step that makes the job row FAILED changes its status only:
\* progress, source_object_path and error_message keep the values they
\* had, and the progress a FAILED row shows is that of the last milestone
\* reached, never 100.
C35_FailedKeepsProgress ==
    [][(job'.status = "FAILED" /\ job.status # "FAILED") =>
          /\ job'.progress = job.progress
          /\ job'.source_object_path = job.source_object_path
          /\ job'.error_message = job.error_message
          /\ job'.progress # 100]_vars
\* ---------------------------------------------------------------------
\* Properties of the separation progress
\* ---------------------------------------------------------------------

\* C36: during one engine separation the values passed to
\* progress_callback never decrease and lie in 0..100, whatever lines the
\* engine writes: no value above 90 while the engine runs, 95 only after
\* it exited with code 0, 100 only after the stems were processed.
C36_CallbackMonotone ==
    /\ \A i \in 1..Len(reported) :
           /\ reported[i] \in 0..100
           /\ \A j \in 1..Len(reported) : i < j => reported[i] <= reported[j]
           /\ reported[i] > 90 => progPc \in {"exited", "done"} /\ engineOutcome.exit = 0
           /\ reported[i] = 100 => progPc = "done"
    /\ progPc \in {"start", "reading"} => \A i \in 1..Len(reported) : reported[i] <= 90

\* C37: parsed progress is advisory: whether the separation succeeds or
\* raises, and the stems of its result, are those the engine's exit code
\* and output files give, whatever text the engine wrote.
C37_ProgressAdvisory ==
    /\ progPc = "raised" => engineOutcome.exit # 0
    /\ progPc = "done" => engineOutcome.exit = 0 /\ stem_files = engineOutcome.produced
\* ---------------------------------------------------------------------
\* Properties of to_segments and write_midi
\* ---------------------------------------------------------------------

\* C38: to_segments covers the signal with windows of seg_len samples that
\* overlap by half: the starts are non-negative and ascending, consecutive
\* starts differ by at most seg_len / 2 rounded down, every sample
\* 0..n-1 lies in a window [s, s + seg_len), and when n >= seg_len every
\* window ends at or before n and the last one ends at n.
C38_WindowsCoverSignal ==
    starts # <<>> =>
        /\ \A i \in 1..Len(starts) : starts[i] >= 0
        /\ \A i \in 1..(Len(starts) - 1) :
               /\ starts[i] < starts[i + 1]
               /\ starts[i + 1] - starts[i] <= seg_len \div 2
        /\ \A x \in 0..(samples - 1) :
               \E i \in 1..Len(starts) : starts[i] <= x /\ x < starts[i] + seg_len
        /\ samples >= seg_len =>
               /\ \A i \in 1..Len(starts) : starts[i] + seg_len <= samples
               /\ starts[Len(starts)] + seg_len = samples

C38_Witness ==
    /\ samples = 12
    /\ seg_len = 5
    /\ starts = <<0, 2, 4, 6, 7>>

\* The tick at which message i of the written track occurs: the sum of
\* the delta times up to it.
RECURSIVE AbsoluteTick(_)
AbsoluteTick(i) == IF i = 0 THEN 0 ELSE AbsoluteTick(i - 1) + midiTrack[i].time

\* C39: write_midi keeps the events at their detected times: the note_on
\* of every event occurs at tick int(t * ticks_per_beat * bpm / 60) of the
\* written track, for simultaneous and close events too, and no event
\* shifts the events after it.
C39_NotesAtDetectedTicks ==
    trPc = "done" =>
        LET written == SortByTime(midiOut[1]) IN
        /\ Len(midiTrack) = 2 * Len(written)
        /\ \A k \in 1..Len(written) :
               /\ midiTrack[2 * k - 1].type = "note_on"
               /\ midiTrack[2 * k - 1].name = written[k].name
               /\ AbsoluteTick(2 * k - 1) = (written[k].time * 480 * 120) \div (60 * 1000)
====
